---- MODULE Spec2Model ----
(***************************************************************************)
(* contrib/run_clippy.py: a wrapper that builds a fixed cargo clippy       *)
(* command line, prints it, runs it as a child process and exits with the  *)
(* child's return code.                                                    *)
(*                                                                         *)
(* Text is modelled as a sequence of one-character strings, so that        *)
(* joining and tokenizing are computed character by character.  The        *)
(* interpreter's part of the script is modelled as CPython on POSIX does   *)
(* it: sys.stdout is line buffered only on a terminal, subprocess reports  *)
(* a child ended by signal s as returncode -s, sys.exit(n) ends the        *)
(* process with the low 8 bits of n, and an uncaught exception flushes     *)
(* sys.stdout, writes a traceback to standard error and ends with 1.       *)
(***************************************************************************)
EXTENDS Integers, Sequences, FiniteSets

VARIABLES
    pc,          \* position of the script
    argv,        \* the wrapper's own command-line arguments (sys.argv[1:])
    environ,     \* the environment the wrapper was started in
    cwd,         \* the working directory the wrapper was started in
    isatty,      \* TRUE iff standard output is a terminal (line buffered)
    cmd,         \* the local list cmd of main(); <<>> before it is built
    stdoutBuf,   \* characters held in the sys.stdout buffer
    stream,      \* writes that reached the standard streams, in order
    child,       \* "none", "running" or "terminated"
    childLines,  \* number of lines the child has written
    launches,    \* number of calls of process creation in this run
    launchArgs,  \* the argument vector handed to process creation
    waitStatus,  \* <<>> or <<how the child terminated>>
    result,      \* <<>> or <<result.returncode>>
    retval,      \* <<>> (main has returned nothing) or <<value returned>>
    exc,         \* "none" or the exception in flight
    exitStatus,  \* <<>> or <<exit status of the wrapper process>>
    prev         \* outcome and argument vector of the previous run

vars == <<pc, argv, environ, cwd, isatty, cmd, stdoutBuf, stream, child,
          childLines, launches, launchArgs, waitStatus, result, retval, exc,
          exitStatus, prev>>

(***************************************************************************)
(* Bounds of the model.                                                    *)
(***************************************************************************)
MaxChildLines == 1
MaxSignal == 15

(***************************************************************************)
(* Text helpers.                                                           *)
(***************************************************************************)
Whitespace == {" ", "\n", "\t"}

RECURSIVE JoinFrom(_, _, _)
JoinFrom(sep, toks, i) ==
    IF i > Len(toks) THEN <<>>
    ELSE IF i = Len(toks) THEN toks[i]
    ELSE toks[i] \o sep \o JoinFrom(sep, toks, i + 1)

\* sep.join(toks)
Join(sep, toks) == JoinFrom(sep, toks, 1)

\* the first position at or after i that holds whitespace (ws = TRUE) or
\* that does not (ws = FALSE); Len(text) + 1 when there is none
RECURSIVE Scan(_, _, _)
Scan(text, i, ws) ==
    IF i > Len(text) \/ ((text[i] \in Whitespace) = ws) THEN i
    ELSE Scan(text, i + 1, ws)

\* text.split(): the maximal runs of non-whitespace characters, in order.
\* from is the position at which the scan resumes; a token starts at the
\* first character that is not whitespace and ends before the next one
\* that is.
RECURSIVE SplitFrom(_, _)
SplitFrom(text, from) ==
    LET b == Scan(text, from, FALSE)
    IN IF b > Len(text) THEN <<>>
       ELSE LET e == Scan(text, b, TRUE)
            IN <<SubSeq(text, b, e - 1)>> \o SplitFrom(text, e)

Split(text) == SplitFrom(text, 1)

\* number of newline characters in text
LineCount(text) == Cardinality({i \in 1..Len(text) : text[i] = "\n"})

(***************************************************************************)
(* The argument list of main().                                            *)
(***************************************************************************)
CmdList ==
    << <<"c", "a", "r", "g", "o">>,
       <<"c", "l", "i", "p", "p", "y">>,
       <<"-", "-", "w", "o", "r", "k", "s", "p", "a", "c", "e">>,
       <<"-", "-", "a", "l", "l", "-", "f", "e", "a", "t", "u", "r", "e", "s">>,
       <<"-", "-", "a", "l", "l", "-", "t", "a", "r", "g", "e", "t", "s">>,
       <<"-", "-", "t", "a", "r", "g", "e", "t", "-", "d", "i", "r">>,
       <<"t", "a", "r", "g", "e", "t", "/", "c", "l", "i", "p", "p", "y">>,
       <<"-", "-">>,
       <<"-", "D">>,
       <<"w", "a", "r", "n", "i", "n", "g", "s">>,
       <<"-", "A">>,
       <<"m", "i", "s", "m", "a", "t", "c", "h", "e", "d", "_", "l", "i", "f",
         "e", "t", "i", "m", "e", "_", "s", "y", "n", "t", "a", "x", "e", "s">> >>

\* the literal text of the f-string before the joined command
RunningPrefix == <<"R", "u", "n", "n", "i", "n", "g", ":", " ">>

\* the joined command printed without a separator between the arguments
PrintedText_NoSeparator(c) == RunningPrefix \o Join(<<>>, c) \o <<"\n">>

\* f"Running: {' '.join(cmd)}" followed by print's newline
PrintedText(c) == RunningPrefix \o Join(<<" ">>, c) \o <<"\n">>

(***************************************************************************)
(* The surroundings of a run.                                              *)
(***************************************************************************)
ArgvSet == { <<>>, << <<"-", "-", "f", "i", "x">> >> }
EnvSet == {"cargo_on_path", "cargo_missing"}
CwdSet == {"repo_root", "subdir"}

ChildText == <<"c", "h", "i", "l", "d", "\n">>
TracebackText ==
    <<"T", "r", "a", "c", "e", "b", "a", "c", "k", "\n",
      "O", "S", "E", "r", "r", "o", "r", "\n">>

NoPrev == [outcome |-> "none", args |-> <<>>]

\* the state of a fresh interpreter about to call main()
Init ==
    /\ pc = "main"
    /\ argv \in ArgvSet
    /\ environ \in EnvSet
    /\ cwd \in CwdSet
    /\ isatty \in BOOLEAN
    /\ cmd = <<>>
    /\ stdoutBuf = <<>>
    /\ stream = <<>>
    /\ child = "none"
    /\ childLines = 0
    /\ launches = 0
    /\ launchArgs = <<>>
    /\ waitStatus = <<>>
    /\ result = <<>>
    /\ retval = <<>>
    /\ exc = "none"
    /\ exitStatus = <<>>
    /\ prev = NoPrev

(***************************************************************************)
(* Interpreter and operating system semantics used by the script.          *)
(***************************************************************************)
\* what reaches standard output when the sys.stdout buffer is flushed
Flushed(strm, buf) ==
    IF buf = <<>> THEN strm
    ELSE Append(strm, [who |-> "wrapper", fd |-> 1, text |-> buf])

\* CompletedProcess.returncode: the exit code, or -s for a child ended by
\* signal s
ReturnCode(ws) == IF ws.kind = "exit" THEN ws.n ELSE 0 - ws.n

\* every failure reported as 1
ExitStatusOf_Clamped(n) == IF n = 0 THEN 0 ELSE 1

\* a signal reported the way a shell does, 128 + s
ExitStatusOf_Shell(n) == IF n >= 0 THEN n ELSE 128 - n

\* the exit status of a process that called sys.exit(n): the low 8 bits
ExitStatusOf(n) == n % 256

\* the wrapper's own arguments forwarded to the tool
BuildCmd_ForwardArgv ==
    /\ pc = "main"
    /\ cmd' = CmdList \o argv
    /\ pc' = "print"
    /\ UNCHANGED <<argv, environ, cwd, isatty, stdoutBuf, stream, child,
                   childLines, launches, launchArgs, waitStatus, result,
                   retval, exc, exitStatus, prev>>

(***************************************************************************)
(* main(), lines 13-20: cmd = [...]                                        *)
(***************************************************************************)
BuildCmd ==
    /\ pc = "main"
    /\ cmd' = CmdList
    /\ pc' = "print"
    /\ UNCHANGED <<argv, environ, cwd, isatty, stdoutBuf, stream, child,
                   childLines, launches, launchArgs, waitStatus, result,
                   retval, exc, exitStatus, prev>>

(***************************************************************************)
(* main(), line 22: print(f"Running: {' '.join(cmd)}").  The text goes to  *)
(* the sys.stdout buffer; it is written through at once only when standard *)
(* output is a terminal.                                                   *)
(***************************************************************************)
PrintCmd ==
    /\ pc = "print"
    /\ LET buf == stdoutBuf \o PrintedText(cmd)
       IN IF isatty
          THEN /\ stream' = Flushed(stream, buf)
               /\ stdoutBuf' = <<>>
          ELSE /\ stream' = stream
               /\ stdoutBuf' = buf
    /\ pc' = "run"
    /\ UNCHANGED <<argv, environ, cwd, isatty, cmd, child, childLines,
                   launches, launchArgs, waitStatus, result, retval, exc,
                   exitStatus, prev>>

(***************************************************************************)
(* main(), line 23: subprocess.run(cmd), process creation.                 *)
(***************************************************************************)
PopenOk ==
    /\ pc = "run"
    /\ environ = "cargo_on_path"
    /\ launches' = launches + 1
    /\ launchArgs' = cmd
    /\ child' = "running"
    /\ pc' = "wait"
    /\ UNCHANGED <<argv, environ, cwd, isatty, cmd, stdoutBuf, stream,
                   childLines, waitStatus, result, retval, exc, exitStatus,
                   prev>>

\* the tool is not found, or the process cannot be created: OSError
PopenFail ==
    /\ pc = "run"
    /\ launches' = launches + 1
    /\ launchArgs' = cmd
    /\ exc' = "OSError"
    /\ pc' = "raise"
    /\ UNCHANGED <<argv, environ, cwd, isatty, cmd, stdoutBuf, stream, child,
                   childLines, waitStatus, result, retval, exitStatus, prev>>

(***************************************************************************)
(* The child: it inherits the standard streams and ends by exiting or by   *)
(* a signal.                                                               *)
(***************************************************************************)
ChildWrite ==
    /\ child = "running"
    /\ childLines < MaxChildLines
    /\ \E fd \in {1, 2} :
          stream' = Append(stream, [who |-> "child", fd |-> fd, text |-> ChildText])
    /\ childLines' = childLines + 1
    /\ UNCHANGED <<pc, argv, environ, cwd, isatty, cmd, stdoutBuf, child,
                   launches, launchArgs, waitStatus, result, retval, exc,
                   exitStatus, prev>>

ChildExit ==
    /\ child = "running"
    /\ \E n \in 0..255 : waitStatus' = << [kind |-> "exit", n |-> n] >>
    /\ child' = "terminated"
    /\ UNCHANGED <<pc, argv, environ, cwd, isatty, cmd, stdoutBuf, stream,
                   childLines, launches, launchArgs, result, retval, exc,
                   exitStatus, prev>>

ChildSignaled ==
    /\ child = "running"
    /\ \E s \in 1..MaxSignal : waitStatus' = << [kind |-> "signal", n |-> s] >>
    /\ child' = "terminated"
    /\ UNCHANGED <<pc, argv, environ, cwd, isatty, cmd, stdoutBuf, stream,
                   childLines, launches, launchArgs, result, retval, exc,
                   exitStatus, prev>>

\* subprocess.run with a timeout: it returns while the child still runs
Wait_Timeout ==
    /\ pc = "wait"
    /\ result' = IF child = "terminated" THEN << ReturnCode(waitStatus[1]) >>
                 ELSE <<1>>
    /\ pc' = "return"
    /\ UNCHANGED <<argv, environ, cwd, isatty, cmd, stdoutBuf, stream, child,
                   childLines, launches, launchArgs, waitStatus, retval, exc,
                   exitStatus, prev>>

\* a failed run of the tool is tried again
Wait_Retry ==
    /\ pc = "wait"
    /\ child = "terminated"
    /\ IF ReturnCode(waitStatus[1]) # 0 /\ launches < 2
       THEN /\ pc' = "run"
            /\ child' = "none"
            /\ waitStatus' = <<>>
            /\ result' = result
       ELSE /\ pc' = "return"
            /\ child' = child
            /\ waitStatus' = waitStatus
            /\ result' = << ReturnCode(waitStatus[1]) >>
    /\ UNCHANGED <<argv, environ, cwd, isatty, cmd, stdoutBuf, stream,
                   childLines, launches, launchArgs, retval, exc,
                   exitStatus, prev>>

(***************************************************************************)
(* main(), line 23: subprocess.run(cmd) returns once the child has         *)
(* terminated; no timeout is passed.                                       *)
(***************************************************************************)
Wait ==
    /\ pc = "wait"
    /\ child = "terminated"
    /\ result' = << ReturnCode(waitStatus[1]) >>
    /\ pc' = "return"
    /\ UNCHANGED <<argv, environ, cwd, isatty, cmd, stdoutBuf, stream, child,
                   childLines, launches, launchArgs, waitStatus, retval, exc,
                   exitStatus, prev>>

(***************************************************************************)
(* main(), line 24: return result.returncode                               *)
(***************************************************************************)
Return ==
    /\ pc = "return"
    /\ retval' = result
    /\ pc' = "sysexit"
    /\ UNCHANGED <<argv, environ, cwd, isatty, cmd, stdoutBuf, stream, child,
                   childLines, launches, launchArgs, waitStatus, result, exc,
                   exitStatus, prev>>

\* the process ends without flushing sys.stdout (os._exit)
SysExit_NoFlush ==
    /\ pc = "sysexit"
    /\ stream' = stream
    /\ stdoutBuf' = <<>>
    /\ exitStatus' = << ExitStatusOf(retval[1]) >>
    /\ pc' = "exited"
    /\ UNCHANGED <<argv, environ, cwd, isatty, cmd, child, childLines,
                   launches, launchArgs, waitStatus, result, retval, exc,
                   prev>>

(***************************************************************************)
(* line 28: sys.exit(main()).  The interpreter flushes sys.stdout and the  *)
(* process ends.                                                           *)
(***************************************************************************)
SysExit ==
    /\ pc = "sysexit"
    /\ stream' = Flushed(stream, stdoutBuf)
    /\ stdoutBuf' = <<>>
    /\ exitStatus' = << ExitStatusOf(retval[1]) >>
    /\ pc' = "exited"
    /\ UNCHANGED <<argv, environ, cwd, isatty, cmd, child, childLines,
                   launches, launchArgs, waitStatus, result, retval, exc,
                   prev>>

\* the OSError caught and turned into a plain exit status 1
Uncaught_Translated ==
    /\ pc = "raise"
    /\ stream' = Flushed(stream, stdoutBuf)
    /\ stdoutBuf' = <<>>
    /\ exitStatus' = <<1>>
    /\ pc' = "exited"
    /\ UNCHANGED <<argv, environ, cwd, isatty, cmd, child, childLines,
                   launches, launchArgs, waitStatus, result, retval, exc,
                   prev>>

(***************************************************************************)
(* lines 23 and 28: the OSError of process creation is caught nowhere; it  *)
(* leaves main() and the module.  The interpreter flushes sys.stdout,      *)
(* writes the traceback to standard error and ends with status 1.          *)
(***************************************************************************)
Uncaught ==
    /\ pc = "raise"
    /\ stream' = Append(Flushed(stream, stdoutBuf),
                        [who |-> "wrapper", fd |-> 2, text |-> TracebackText])
    /\ stdoutBuf' = <<>>
    /\ exitStatus' = <<1>>
    /\ pc' = "exited"
    /\ UNCHANGED <<argv, environ, cwd, isatty, cmd, child, childLines,
                   launches, launchArgs, waitStatus, result, retval, exc,
                   prev>>

(***************************************************************************)
(* The script is run again (line 27), in surroundings that may differ.     *)
(***************************************************************************)
Outcome ==
    IF exc # "none" THEN "StartupFailure"
    ELSE IF exitStatus = <<0>> THEN "Success"
    ELSE "ToolFailure"

Restart ==
    /\ pc = "exited"
    /\ pc' = "main"
    /\ argv' \in ArgvSet
    /\ environ' \in EnvSet
    /\ cwd' \in CwdSet
    /\ isatty' \in BOOLEAN
    /\ cmd' = <<>>
    /\ stdoutBuf' = <<>>
    /\ stream' = <<>>
    /\ child' = "none"
    /\ childLines' = 0
    /\ launches' = 0
    /\ launchArgs' = <<>>
    /\ waitStatus' = <<>>
    /\ result' = <<>>
    /\ retval' = <<>>
    /\ exc' = "none"
    /\ exitStatus' = <<>>
    /\ prev' = [outcome |-> Outcome, args |-> launchArgs]

Next ==
    \/ BuildCmd
    \/ PrintCmd
    \/ PopenOk
    \/ PopenFail
    \/ ChildWrite
    \/ ChildExit
    \/ ChildSignaled
    \/ Wait
    \/ Return
    \/ SysExit
    \/ Uncaught
    \/ Restart

Spec == Init /\ [][Next]_vars

(***************************************************************************)
(* The interpreter keeps executing the script, and the tool is assumed to  *)
(* terminate once it runs.  A further run of the script is never forced.   *)
(***************************************************************************)
Script ==
    \/ BuildCmd
    \/ PrintCmd
    \/ PopenOk
    \/ PopenFail
    \/ Wait
    \/ Return
    \/ SysExit
    \/ Uncaught

ChildTerminates == ChildExit \/ ChildSignaled

FairSpec == Spec /\ WF_vars(Script) /\ WF_vars(ChildTerminates)

(***************************************************************************)
(* Observations used by the properties.                                    *)
(***************************************************************************)
RECURSIVE WrittenFrom(_, _, _, _)
WrittenFrom(strm, who, fds, i) ==
    IF i > Len(strm) THEN <<>>
    ELSE (IF strm[i].who = who /\ strm[i].fd \in fds THEN strm[i].text ELSE <<>>)
         \o WrittenFrom(strm, who, fds, i + 1)

\* the characters a process has written to the given descriptors, in order
Written(who, fds) == WrittenFrom(stream, who, fds, 1)

\* the text handed to print so far, written through or still buffered
Printed == Written("wrapper", {1}) \o stdoutBuf

RunningToken == <<"R", "u", "n", "n", "i", "n", "g", ":">>

ChildExitedWith(n) ==
    waitStatus # <<>> /\ waitStatus[1].kind = "exit" /\ waitStatus[1].n = n

ChildKilledBy(s) ==
    waitStatus # <<>> /\ waitStatus[1].kind = "signal" /\ waitStatus[1].n = s

(***************************************************************************)
(* C1: whenever the child was launched and exited with code N, for N = 0   *)
(* and every N in 1..255, the wrapper exits with exactly N.                *)
(***************************************************************************)
C1_ExitCodePassThrough ==
    \A n \in 0..255 :
        (pc = "exited" /\ ChildExitedWith(n)) => exitStatus = <<n>>

C1_Witness == pc = "exited" /\ ChildExitedWith(255) /\ exitStatus = <<255>>

(***************************************************************************)
(* C2, as claimed: the wrapper's exit status is exactly the integer that   *)
(* main() returned, also when the child was ended by a signal.             *)
(***************************************************************************)
C2_Original ==
    (pc = "exited" /\ retval # <<>>) => exitStatus = retval

(***************************************************************************)
(* C2, amended: the wrapper's exit status is the value main() returned     *)
(* reduced modulo 256: the value itself for 0..255, and 256 - s for a      *)
(* child ended by signal s, for which main() returns -s.                   *)
(***************************************************************************)
C2_StatusModulo256 ==
    /\ (pc = "exited" /\ retval # <<>> /\ retval[1] >= 0) => exitStatus = retval
    /\ \A s \in 1..MaxSignal :
          (pc = "exited" /\ ChildKilledBy(s)) =>
              (retval = <<0 - s>> /\ exitStatus = <<256 - s>>)

C2_Witness == pc = "exited" /\ ChildKilledBy(9) /\ exitStatus = <<247>>

(***************************************************************************)
(* C3, as claimed: the printed line, split at whitespace, is exactly the   *)
(* argument sequence.                                                      *)
(***************************************************************************)
C3_Original ==
    pc \notin {"main", "print"} => Split(Printed) = CmdList

(***************************************************************************)
(* C3, amended: the printed line, split at whitespace, is the token        *)
(* Running: followed by exactly the argument sequence, in order.           *)
(***************************************************************************)
C3_PrintedTokens ==
    pc \notin {"main", "print"} => Split(Printed) = <<RunningToken>> \o CmdList

C3_Witness ==
    /\ pc = "run"
    /\ Len(Split(Printed)) = 13
    /\ Split(Printed)[7] = <<"-", "-", "t", "a", "r", "g", "e", "t", "-", "d", "i", "r">>

(***************************************************************************)
(* C4: when the tool cannot be started, main() returns nothing, the error  *)
(* of process creation is still in flight when the process ends, the exit  *)
(* status is not 0 and the wrapper's traceback on standard error tells the *)
(* outcome apart from a run in which the child ran and failed.             *)
(***************************************************************************)
C4_StartupFailureSurfaces ==
    /\ (pc = "exited" /\ launches > 0 /\ child = "none") =>
          /\ retval = <<>>
          /\ exc = "OSError"
          /\ exitStatus # <<>> /\ exitStatus[1] # 0
          /\ Written("wrapper", {2}) # <<>>
    /\ (pc = "exited" /\ child # "none") =>
          /\ retval # <<>>
          /\ Written("wrapper", {2}) = <<>>

C4_Witness ==
    pc = "exited" /\ launches = 1 /\ child = "none" /\ exitStatus = <<1>>

(***************************************************************************)
(* C5, as claimed: the events of a run occur in the order build, print,    *)
(* create child, child terminates, exit: the command line is on standard   *)
(* output before the child is created, and the wrapper does not exit       *)
(* while its child runs.                                                   *)
(***************************************************************************)
C5_EmittedBeforeChild ==
    /\ child # "none" => (cmd # <<>> /\ Written("wrapper", {1}) # <<>>)
    /\ pc = "exited" => child # "running"

(***************************************************************************)
(* C6: process creation is called at most once per run, whatever the       *)
(* outcome, and the child's termination is never a step of the wrapper.    *)
(***************************************************************************)
C6_SingleLaunch ==
    /\ [](launches <= 1)
    /\ [][(child = "running" /\ child' # "running") => pc' = pc]_vars

C6_Witness ==
    pc = "exited" /\ launches = 1 /\ ChildExitedWith(1) /\ exitStatus = <<1>>

(***************************************************************************)
(* C7: the argument sequence is the same in every run: it is the fixed     *)
(* list whatever the wrapper's arguments, environment, working directory   *)
(* and previous outcome are, it is what the previous run used, and it is   *)
(* unchanged between construction and use.                                 *)
(***************************************************************************)
C7_ConstantArguments ==
    /\ cmd \in {<<>>, CmdList}
    /\ launchArgs # <<>> => launchArgs = cmd
    /\ (launchArgs # <<>> /\ prev.args # <<>>) => launchArgs = prev.args

C7_Witness ==
    /\ prev.outcome = "StartupFailure"
    /\ argv # <<>>
    /\ cwd = "subdir"
    /\ child = "running"
    /\ launchArgs = prev.args

(***************************************************************************)
(* C8, as claimed: in every outcome the wrapper writes exactly one line,   *)
(* the command line, and nothing else.                                     *)
(***************************************************************************)
C8_Original ==
    pc = "exited" => LineCount(Written("wrapper", {1, 2})) = 1

(***************************************************************************)
(* C8, amended: in every outcome the wrapper writes exactly one line to    *)
(* standard output, the command line; when the child was launched it       *)
(* writes nothing to standard error, and on a startup failure the          *)
(* interpreter also writes the traceback of the error to standard error.   *)
(***************************************************************************)
C8_OneLineOnStdout ==
    pc = "exited" =>
        /\ LineCount(Written("wrapper", {1})) = 1
        /\ Written("wrapper", {1}) = PrintedText(CmdList)
        /\ child # "none" => Written("wrapper", {2}) = <<>>
        /\ child = "none" => Written("wrapper", {2}) = TracebackText

C8_Witness ==
    /\ pc = "exited"
    /\ ~isatty
    /\ child = "none"
    /\ LineCount(Written("wrapper", {1})) = 1
    /\ LineCount(Written("wrapper", {2})) = 2

(***************************************************************************)
(* C9: the wrapper leaves the wait only when the child has terminated,     *)
(* and if the child that runs eventually terminates then the wrapper       *)
(* eventually exits.                                                       *)
(***************************************************************************)
C9_BlocksUntilChildEnds ==
    /\ [][(pc = "wait" /\ pc' # "wait") => child = "terminated"]_vars
    /\ (pc = "wait") ~> (pc = "exited")

C9_Witness == pc = "exited" /\ child = "terminated" /\ childLines = 1

(***************************************************************************)
(* C10, as claimed: the argument vector handed to process creation is the  *)
(* one that was printed, and the printed line is on standard output        *)
(* before the launch is attempted, also when the launch fails.             *)
(***************************************************************************)
C10_PrintedPrecedesLaunch ==
    launches > 0 =>
        Split(Written("wrapper", {1})) = <<RunningToken>> \o launchArgs

====
